---- MODULE Spec2Model ----
(***************************************************************************)
(* learn_image_embeddings.py: assembly of the embedding model, the         *)
(* optional classification head, the batch transform, and the two          *)
(* training phases of the script, as a state machine over one run after    *)
(* another sharing the snapshot file.                                      *)
(*                                                                         *)
(* A Python str that the code parses (--cls_base) is a sequence of         *)
(* one-character strings; layer names are strings.  A Keras model is a     *)
(* record: its layers in order, the layer feeding each layer and the names *)
(* of the layers producing its outputs; the layers' trainable flags are    *)
(* kept beside it, as the layer objects are shared between models.         *)
(***************************************************************************)
EXTENDS Integers, Sequences, FiniteSets, TLC

(* ------------------------------ bounds -------------------------------- *)
\* largest --finetune_init / --epochs value drawn
MaxEpochs == 2
\* longest batch (number of samples) handed to transform_inputs
MaxBatch == 3

(* ------------------------- the environment ---------------------------- *)
\* Python's None, and a value that is not None.
PyNone == [none |-> TRUE]

Some(v) == [none |-> FALSE, v |-> v]

\* The pickle at --embedding: one row per class (embedding['embedding']).
Embedding == << <<1, 0>>, <<0, 1>>, <<1, 1>> >>

\* data_generator.num_classes: one class per row of the embedding.
NumClasses == Len(Embedding)

\* The samples the data generator draws batches from.
Dataset ==
    << [img |-> "imgA", label |-> 0],
       [img |-> "imgB", label |-> 2],
       [img |-> "imgC", label |-> 1],
       [img |-> "imgD", label |-> 2] >>

\* The batches (X, y) of up to MaxBatch samples.
Batches ==
    { [X |-> [i \in 1..Len(s) |-> Dataset[s[i]].img],
       y |-> [i \in 1..Len(s) |-> Dataset[s[i]].label]] :
        s \in UNION { [1..n -> 1..Len(Dataset)] : n \in 1..MaxBatch } }

\* The batches the runs of the script train on: one sample each.
TrainBatches == { b \in Batches : Len(b.y) = 1 }

(* --------------------------- Python pieces ---------------------------- *)
Digits == {"0", "1", "2", "3", "4", "5", "6", "7", "8", "9"}

DigitVal(c) ==
    CASE c = "0" -> 0 [] c = "1" -> 1 [] c = "2" -> 2 [] c = "3" -> 3
      [] c = "4" -> 4 [] c = "5" -> 5 [] c = "6" -> 6 [] c = "7" -> 7
      [] c = "8" -> 8 [] c = "9" -> 9

RECURSIVE LStrip(_)
LStrip(s) == IF s # <<>> /\ Head(s) = " " THEN LStrip(Tail(s)) ELSE s

RECURSIVE RStrip(_)
RStrip(s) ==
    IF s # <<>> /\ s[Len(s)] = " " THEN RStrip(SubSeq(s, 1, Len(s) - 1)) ELSE s

\* The digits of an integer literal: digits, single underscores between them.
RECURSIVE DigitsOk(_, _)
DigitsOk(s, prevDigit) ==
    IF s = <<>> THEN prevDigit
    ELSE IF Head(s) \in Digits THEN DigitsOk(Tail(s), TRUE)
    ELSE IF Head(s) = "_" THEN prevDigit /\ DigitsOk(Tail(s), FALSE)
    ELSE FALSE

RECURSIVE DigitsVal(_, _)
DigitsVal(s, acc) ==
    IF s = <<>> THEN acc
    ELSE IF Head(s) = "_" THEN DigitsVal(Tail(s), acc)
    ELSE DigitsVal(Tail(s), 10 * acc + DigitVal(Head(s)))

\* int(s) for a str s: surrounding blanks ignored, an optional sign, digits.
PyInt(s) ==
    LET t == RStrip(LStrip(s))
        signed == t # <<>> /\ Head(t) \in {"+", "-"}
        body == IF signed THEN Tail(t) ELSE t
    IN  IF body # <<>> /\ DigitsOk(body, FALSE)
        THEN [ok |-> TRUE,
              val |-> IF signed /\ Head(t) = "-"
                      THEN 0 - DigitsVal(body, 0) ELSE DigitsVal(body, 0)]
        ELSE [ok |-> FALSE, val |-> 0]

\* The str as a layer name.
RECURSIVE PyStr(_)
PyStr(s) == IF s = <<>> THEN "" ELSE Head(s) \o PyStr(Tail(s))

\* seq[i] of a Python list: FALSE when i is out of range (IndexError).
PyIndexOk(seq, i) == (0 - Len(seq)) <= i /\ i < Len(seq)

PyIndex(seq, i) == IF i >= 0 THEN seq[i + 1] ELSE seq[Len(seq) + i + 1]

\* numpy fancy indexing embedding[y]: one row per label.
EmbeddingRows(embedding, y) == [i \in 1..Len(y) |-> PyIndex(embedding, y[i])]

(* ---------------------------- Keras pieces ---------------------------- *)
\* A name bound to no model yet.
NoModel == [layers |-> <<>>, inbound |-> <<>>, outputs |-> <<>>]

LayerSet(m) == { m.layers[i] : i \in 1..Len(m.layers) }

\* utils.build_network(embedding.shape[1], architecture): a chain of named
\* layers whose last layer, named 'embedding', has output_dim units.
build_network(output_dim, architecture) ==
    LET hidden == IF architecture = "simple" THEN <<"conv1">>
                  ELSE <<"conv1", "conv2">>
        layers == <<"input_1">> \o hidden \o <<"embedding">>
    IN  [layers |-> layers,
         inbound |-> [l \in { layers[i] : i \in 1..Len(layers) } |->
                        IF l = layers[1] THEN ""
                        ELSE layers[(CHOOSE i \in 2..Len(layers) : layers[i] = l) - 1]],
         outputs |-> <<"embedding">>]

\* layer(name)(base): one more layer in the graph, fed by the layer base.
Call(m, name, base) ==
    [layers |-> Append(m.layers, name),
     inbound |-> (name :> base) @@ m.inbound,
     outputs |-> m.outputs]

\* keras.models.Model(m.inputs, outputs): the layers the outputs depend on.
RECURSIVE Ancestors(_, _)
Ancestors(m, l) == IF l = "" THEN {} ELSE {l} \cup Ancestors(m, m.inbound[l])

Model(m, outputs) ==
    LET keep == UNION { Ancestors(m, outputs[i]) : i \in 1..Len(outputs) }
    IN  [layers |-> SelectSeq(m.layers, LAMBDA l : l \in keep),
         inbound |-> [l \in keep |-> m.inbound[l]],
         outputs |-> outputs]

\* model.get_layer(name): found when some layer has that name.
HasLayer(m, name) == name \in LayerSet(m)

\* keras.utils.to_categorical(y, num_classes): a row of zeros per sample
\* with a one at the label's position.
to_categorical(y, num_classes) ==
    [i \in 1..Len(y) |->
        [j \in 1..num_classes |->
            IF j = (IF y[i] >= 0 THEN y[i] + 1 ELSE num_classes + y[i] + 1)
            THEN 1 ELSE 0]]

(* ------------------------------ cls_model ----------------------------- *)
\* The exception the choice of base raises, "" when it raises none.
ClsBaseError(embed_model, cls_base) ==
    IF cls_base.none THEN ""
    ELSE IF PyInt(cls_base.v).ok
         THEN IF PyIndexOk(embed_model.layers, PyInt(cls_base.v).val)
              THEN "" ELSE "IndexError"
    ELSE IF HasLayer(embed_model, PyStr(cls_base.v)) THEN "" ELSE "ValueError"

\* ClsBase reading an index from the end as one from the start.
ClsBaseAbsIndex(embed_model, cls_base) ==
    IF cls_base.none THEN embed_model.outputs[1]
    ELSE IF PyInt(cls_base.v).ok
         THEN PyIndex(embed_model.layers,
                      IF PyInt(cls_base.v).val < 0
                      THEN 0 - PyInt(cls_base.v).val ELSE PyInt(cls_base.v).val)
    ELSE PyStr(cls_base.v)

\* Lines 34-40: the layer whose output feeds the classifier.
ClsBase(embed_model, cls_base) ==
    IF cls_base.none THEN embed_model.outputs[1]
    ELSE IF PyInt(cls_base.v).ok
         THEN PyIndex(embed_model.layers, PyInt(cls_base.v).val)
    ELSE PyStr(cls_base.v)

\* The outputs of the model cls_model returns.
ClsOutputs(embed_model) == <<embed_model.outputs[1], "prob">>

cls_model(embed_model, num_classes, cls_base) ==
    LET base == ClsBase(embed_model, cls_base)
        x1 == Call(embed_model, "activation_1", base)
        x2 == Call(x1, "batch_normalization_1", "activation_1")
        x3 == Call(x2, "prob", "batch_normalization_1")
    IN  Model(x3, ClsOutputs(embed_model))

(* --------------------------- transform_inputs ------------------------- *)
\* Targets with the two parts of the list in the other order.
TargetsSwapped(y, embedding, num_classes) ==
    IF num_classes.none
    THEN [list |-> FALSE, value |-> EmbeddingRows(embedding, y)]
    ELSE [list |-> TRUE,
          value |-> << to_categorical(y, num_classes.v),
                       EmbeddingRows(embedding, y) >>]

\* Line 50: the targets of a batch, the single array or the list.
Targets(y, embedding, num_classes) ==
    IF num_classes.none
    THEN [list |-> FALSE, value |-> EmbeddingRows(embedding, y)]
    ELSE [list |-> TRUE,
          value |-> << EmbeddingRows(embedding, y),
                       to_categorical(y, num_classes.v) >>]

transform_inputs(X, y, embedding, num_classes) ==
    [X |-> X, y |-> Targets(y, embedding, num_classes)]

(* --------------------------- the script's state ----------------------- *)
VARIABLES
    args,                   \* the parsed command line
    fs,                     \* the file at the --snapshot path
    fs0,                    \* that file as it was when the run started
    pc,                     \* where the script is
    error,                  \* the exception that ended the run, "" if none
    model,                  \* the template model
    embed_model,            \* the network build_network returned, if bound
    par_model,              \* the model that is compiled and trained
    embedding_layer_name,
    trainable,              \* layer name -> layer.trainable
    resumed,                \* the model was loaded from the snapshot
    batch_transform_kwargs,
    loss,
    metric,
    compiled,               \* the arguments of the last par_model.compile
    callbacks,
    epoch,                  \* the epoch the running fit_generator is at
    pre_epochs,             \* epochs of pre-training run so far
    drawn,                  \* the last batch (X, y) the generator drew
    batch                   \* that batch as handed to the model

vars == << args, fs, fs0, pc, error, model, embed_model, par_model,
           embedding_layer_name, trainable, resumed, batch_transform_kwargs,
           loss, metric, compiled, callbacks, epoch, pre_epochs, drawn,
           batch >>

\* get_lr_schedule's number of epochs, used when --epochs is not given.
ScheduleEpochs == 1

Losses == {"mse", "inv_corr", "unnorm_corr", "softmax_corr"}

\* --cls_base values the runs try: None, an index, a name, a bad index.
ClsBases ==
    { PyNone, Some(<<"1">>), Some(<<"c", "o", "n", "v", "1">>), Some(<<"9">>) }

\* The command lines tried.  An option the run never reads is held at one
\* value: --cls_base without a positive --cls_weight, --finetune_init
\* without --finetune, --gpu_merge with one GPU.
ArgSets ==
    { a \in [ architecture : {"simple"},
              loss : Losses,
              cls_weight : {-1, 0, 2},
              cls_base : ClsBases,
              epochs : {PyNone} \cup { Some(n) : n \in {MaxEpochs} },
              initial_epoch : {0},
              snapshot : BOOLEAN,
              finetune : BOOLEAN,
              finetune_init : 0..MaxEpochs,
              gpus : {1, 2},
              gpu_merge : BOOLEAN ] :
        /\ (a.cls_weight <= 0 => a.cls_base = PyNone)
        /\ (~a.finetune => a.finetune_init = MaxEpochs)
        /\ (a.gpus <= 1 => ~a.gpu_merge) }

\* The defaults of the options (lines 63-83), as far as ArgSets holds them.
Defaults ==
    [architecture |-> "simple", loss |-> "inv_corr", cls_weight |-> 0,
     cls_base |-> PyNone, epochs |-> PyNone, initial_epoch |-> 0,
     snapshot |-> FALSE, finetune |-> FALSE, finetune_init |-> MaxEpochs,
     gpus |-> 1, gpu_merge |-> FALSE]

NoFile == [exists |-> FALSE, model |-> NoModel, trainable |-> <<>>,
           multi_gpu |-> FALSE]

NoBatch == [X |-> <<>>, y |-> <<>>]

NoCompile == [form |-> "none", loss |-> <<>>, loss_weights |-> <<>>, fn |-> ""]

\* Lines 92-110: the state of a run when model construction starts.
Fresh(a) ==
    /\ args' = a
    /\ error' = ""
    /\ model' = NoModel
    /\ embed_model' = PyNone
    /\ par_model' = [multi_gpu |-> FALSE, cpu_merge |-> FALSE]
    /\ embedding_layer_name' = "embedding"
    /\ trainable' = <<>>
    /\ resumed' = FALSE
    /\ batch_transform_kwargs' = [embedding |-> <<>>, num_classes |-> PyNone]
    /\ loss' = ""
    /\ metric' = ""
    /\ compiled' = NoCompile
    /\ callbacks' = <<>>
    /\ epoch' = 0
    /\ pre_epochs' = 0
    /\ drawn' = NoBatch
    /\ batch' = PyNone

Init ==
    /\ args \in ArgSets
    /\ fs = NoFile
    /\ fs0 = NoFile
    /\ pc = "start"
    /\ error = ""
    /\ model = NoModel
    /\ embed_model = PyNone
    /\ par_model = [multi_gpu |-> FALSE, cpu_merge |-> FALSE]
    /\ embedding_layer_name = "embedding"
    /\ trainable = <<>>
    /\ resumed = FALSE
    /\ batch_transform_kwargs = [embedding |-> <<>>, num_classes |-> PyNone]
    /\ loss = ""
    /\ metric = ""
    /\ compiled = NoCompile
    /\ callbacks = <<>>
    /\ epoch = 0
    /\ pre_epochs = 0
    /\ drawn = NoBatch
    /\ batch = PyNone

(* ------------------------- model construction ------------------------- *)
\* Lines 116-125: the model built anew on a single device.
BuildSingle(a) ==
    LET embed == build_network(Len(Embedding[1]), a.architecture)
        m == IF a.loss = "inv_corr"
             THEN Model(Call(embed, "l2norm", embed.outputs[1]), <<"l2norm">>)
             ELSE IF a.loss = "softmax_corr"
             THEN Model(Call(embed, "softmax", embed.outputs[1]), <<"softmax">>)
             ELSE embed
        name == IF a.loss = "inv_corr" THEN "l2norm"
                ELSE IF a.loss = "softmax_corr" THEN "softmax"
                ELSE "embedding"
        cls == a.cls_weight > 0
    IN  [error |-> IF cls THEN ClsBaseError(m, a.cls_base) ELSE "",
         embed_model |-> embed,
         embedding_layer_name |-> name,
         model |-> IF cls /\ ClsBaseError(m, a.cls_base) = ""
                   THEN cls_model(m, NumClasses, a.cls_base) ELSE m]

\* BuildCpu with the softmax_corr branch (lines 138-140) left out.
BuildCpuNoSoftmax(a) ==
    LET embed == build_network(Len(Embedding[1]), a.architecture)
        m == IF a.loss = "inv_corr"
             THEN Model(Call(embed, "l2norm", embed.outputs[1]), <<"l2norm">>)
             ELSE embed
        name == IF a.loss = "inv_corr" THEN "l2norm" ELSE "embedding"
        cls == a.cls_weight > 0
    IN  [error |-> IF cls THEN ClsBaseError(m, a.cls_base) ELSE "",
         embed_model |-> embed,
         embedding_layer_name |-> name,
         model |-> IF cls /\ ClsBaseError(m, a.cls_base) = ""
                   THEN cls_model(m, NumClasses, a.cls_base) ELSE m]

\* Lines 133-142: the model built anew on the CPU for several GPUs.
BuildCpu(a) ==
    LET embed == build_network(Len(Embedding[1]), a.architecture)
        m == IF a.loss = "inv_corr"
             THEN Model(Call(embed, "l2norm", embed.outputs[1]), <<"l2norm">>)
             ELSE IF a.loss = "softmax_corr"
             THEN Model(Call(embed, "softmax", embed.outputs[1]), <<"softmax">>)
             ELSE embed
        name == IF a.loss = "inv_corr" THEN "l2norm"
                ELSE IF a.loss = "softmax_corr" THEN "softmax"
                ELSE "embedding"
        cls == a.cls_weight > 0
    IN  [error |-> IF cls THEN ClsBaseError(m, a.cls_base) ELSE "",
         embed_model |-> embed,
         embedding_layer_name |-> name,
         model |-> IF cls /\ ClsBaseError(m, a.cls_base) = ""
                   THEN cls_model(m, NumClasses, a.cls_base) ELSE m]

\* Lines 111, 127: which branch constructs the model.
SingleDevice(a) == a.gpus <= 1 \/ a.gpu_merge

\* Lines 112, 129: the snapshot is given and the file exists.
Resume(a, f) == a.snapshot /\ f.exists

\* Lines 126, 143: the model handed to compile and fit_generator.
ParModel(a) ==
    IF SingleDevice(a)
    THEN [multi_gpu |-> a.gpus > 1, cpu_merge |-> FALSE]
    ELSE [multi_gpu |-> TRUE, cpu_merge |-> TRUE]

\* Lines 111-143.
Construct ==
    /\ pc = "start"
    /\ LET built == IF SingleDevice(args) THEN BuildSingle(args)
                    ELSE BuildCpu(args)
       IN  IF Resume(args, fs)
           THEN /\ model' = fs.model
                /\ trainable' = fs.trainable
                /\ resumed' = TRUE
                /\ par_model' = ParModel(args)
                /\ pc' = "constructed"
                /\ UNCHANGED << embed_model, embedding_layer_name, error >>
           ELSE IF built.error # ""
           THEN /\ pc' = "aborted"
                /\ error' = built.error
                /\ embed_model' = Some(built.embed_model)
                /\ embedding_layer_name' = built.embedding_layer_name
                /\ model' = built.model
                /\ trainable' = [l \in LayerSet(built.model) |-> TRUE]
                /\ UNCHANGED << resumed, par_model >>
           ELSE /\ model' = built.model
                /\ embed_model' = Some(built.embed_model)
                /\ embedding_layer_name' = built.embedding_layer_name
                /\ trainable' = [l \in LayerSet(built.model) |-> TRUE]
                /\ par_model' = ParModel(args)
                /\ pc' = "constructed"
                /\ UNCHANGED << resumed, error >>
    /\ UNCHANGED << args, fs, fs0, batch_transform_kwargs, loss, metric, compiled,
                    callbacks, epoch, pre_epochs, drawn, batch >>

(* ------------------------ losses and batch targets -------------------- *)
\* args.loss.endswith('_corr'), over the choices of --loss.
EndsWithCorr(l) == l \in {"inv_corr", "unnorm_corr", "softmax_corr"}

\* Lines 152-157: the loss function.
LossFor(a) == IF EndsWithCorr(a.loss) THEN "inv_correlation" ELSE "squared_distance"

\* Lines 152-157: the metric.
MetricFor(a) ==
    IF EndsWithCorr(a.loss)
    THEN IF a.loss = "softmax_corr" THEN "accuracy" ELSE "nn_accuracy_dot"
    ELSE "nn_accuracy_dist"

\* Lines 148-151.
BatchTransformKwargs(a) ==
    [embedding |-> Embedding,
     num_classes |-> IF a.cls_weight > 0 THEN Some(NumClasses) ELSE PyNone]

\* Lines 145-157.
Configure ==
    /\ pc = "constructed"
    /\ batch_transform_kwargs' = BatchTransformKwargs(args)
    /\ loss' = LossFor(args)
    /\ metric' = MetricFor(args)
    /\ pc' = "configured"
    /\ UNCHANGED << args, fs, fs0, error, model, embed_model, par_model,
                    embedding_layer_name, trainable, resumed, compiled,
                    callbacks, epoch, pre_epochs, drawn, batch >>

\* Lines 168-176 and 201-209: the arguments of par_model.compile.  In the
\* dict literal the later key 'prob' wins over an equal earlier key.
CompileArgs(a, name, lossfn) ==
    IF a.cls_weight > 0
    THEN [form |-> "dict",
          loss |-> ("prob" :> "categorical_crossentropy") @@ (name :> lossfn),
          loss_weights |-> ("prob" :> a.cls_weight) @@ (name :> 1),
          fn |-> ""]
    ELSE [form |-> "single", loss |-> <<>>, loss_weights |-> <<>>, fn |-> lossfn]

\* A batch as the train / test sequence hands it to the model.
Transformed(b) ==
    Some(transform_inputs(b.X, b.y, batch_transform_kwargs.embedding,
                          batch_transform_kwargs.num_classes))

(* ------------------------------ pre-training -------------------------- *)
\* Lines 165-166.
PretrainFlags(m) == [l \in LayerSet(m) |-> l \in {"embedding", "prob"}]

\* Line 167, on a bound embed_model.
LastLayerTrainable(flags, embed) ==
    [flags EXCEPT ![PyIndex(embed.layers, -1)] = TRUE]

\* Lines 160-176.
Finetune ==
    /\ pc = "configured"
    /\ IF ~args.finetune \/ args.finetune_init <= 0
       THEN /\ pc' = "schedule"
            /\ UNCHANGED << trainable, compiled, error >>
       ELSE IF embed_model.none
       THEN /\ trainable' = PretrainFlags(model)
            /\ pc' = "aborted"
            /\ error' = "NameError"
            /\ UNCHANGED compiled
       ELSE /\ trainable' = LastLayerTrainable(PretrainFlags(model), embed_model.v)
            /\ compiled' = CompileArgs(args, embedding_layer_name, loss)
            /\ pc' = "pretrain"
            /\ UNCHANGED error
    /\ UNCHANGED << args, fs, fs0, model, embed_model, par_model,
                    embedding_layer_name, resumed, batch_transform_kwargs,
                    loss, metric, callbacks, epoch, pre_epochs, drawn, batch >>

\* Lines 177-181: a batch of the pre-training.
PretrainBatch ==
    /\ pc = "pretrain"
    /\ epoch < args.finetune_init
    /\ \E b \in TrainBatches : drawn' = b /\ batch' = Transformed(b)
    /\ UNCHANGED << args, fs, fs0, pc, error, model, embed_model, par_model,
                    embedding_layer_name, trainable, resumed,
                    batch_transform_kwargs, loss, metric, compiled, callbacks,
                    epoch, pre_epochs >>

\* Lines 177-181: an epoch of the pre-training ends.
PretrainEpochEnd ==
    /\ pc = "pretrain"
    /\ epoch < args.finetune_init
    /\ ~batch.none
    /\ epoch' = epoch + 1
    /\ pre_epochs' = pre_epochs + 1
    /\ drawn' = NoBatch
    /\ batch' = PyNone
    /\ UNCHANGED << args, fs, fs0, pc, error, model, embed_model, par_model,
                    embedding_layer_name, trainable, resumed,
                    batch_transform_kwargs, loss, metric, compiled, callbacks >>

\* Lines 182-184.
PretrainFinish ==
    /\ pc = "pretrain"
    /\ epoch >= args.finetune_init
    /\ trainable' = [l \in LayerSet(model) |-> TRUE]
    /\ pc' = "schedule"
    /\ UNCHANGED << args, fs, fs0, error, model, embed_model, par_model,
                    embedding_layer_name, resumed, batch_transform_kwargs,
                    loss, metric, compiled, callbacks, epoch, pre_epochs,
                    drawn, batch >>

(* ------------------------------ main training ------------------------- *)
\* Lines 194-195: the checkpoint callback.
Checkpoint(a) ==
    [kind |-> IF a.gpus <= 1 THEN "ModelCheckpoint" ELSE "TemplateModelCheckpoint",
     filepath |-> "snapshot"]

\* Lines 187-195; the schedule's callbacks are one entry.
Callbacks(a) ==
    << [kind |-> "lr_schedule", filepath |-> ""] >>
        \o (IF a.snapshot THEN << Checkpoint(a) >> ELSE <<>>)

Schedule ==
    /\ pc = "schedule"
    /\ callbacks' = Callbacks(args)
    /\ pc' = "compile"
    /\ UNCHANGED << args, fs, fs0, error, model, embed_model, par_model,
                    embedding_layer_name, trainable, resumed,
                    batch_transform_kwargs, loss, metric, compiled, epoch,
                    pre_epochs, drawn, batch >>

\* Lines 197-209.
CompileMain ==
    /\ pc = "compile"
    /\ compiled' = CompileArgs(args, embedding_layer_name, loss)
    /\ epoch' = args.initial_epoch
    /\ pc' = "fit"
    /\ UNCHANGED << args, fs, fs0, error, model, embed_model, par_model,
                    embedding_layer_name, trainable, resumed,
                    batch_transform_kwargs, loss, metric, callbacks,
                    pre_epochs, drawn, batch >>

\* Line 214: epochs = args.epochs if args.epochs else num_epochs.
TotalEpochs(a) ==
    IF ~a.epochs.none /\ a.epochs.v # 0 THEN a.epochs.v ELSE ScheduleEpochs

\* What a checkpoint callback writes: ModelCheckpoint saves the model being
\* trained, TemplateModelCheckpoint the template it was given.
Saved(cb, f) ==
    IF cb.kind = "ModelCheckpoint"
    THEN [exists |-> TRUE, model |-> model, trainable |-> trainable,
          multi_gpu |-> par_model.multi_gpu]
    ELSE IF cb.kind = "TemplateModelCheckpoint"
    THEN [exists |-> TRUE, model |-> model, trainable |-> trainable,
          multi_gpu |-> FALSE]
    ELSE f

RECURSIVE RunCallbacks(_, _)
RunCallbacks(cbs, f) ==
    IF cbs = <<>> THEN f ELSE RunCallbacks(Tail(cbs), Saved(Head(cbs), f))

\* Lines 211-216: a batch of the main training.
MainBatch ==
    /\ pc = "fit"
    /\ epoch < TotalEpochs(args)
    /\ \E b \in TrainBatches : drawn' = b /\ batch' = Transformed(b)
    /\ UNCHANGED << args, fs, fs0, pc, error, model, embed_model, par_model,
                    embedding_layer_name, trainable, resumed,
                    batch_transform_kwargs, loss, metric, compiled, callbacks,
                    epoch, pre_epochs >>

\* Lines 211-216: an epoch of the main training ends; the callbacks run.
MainEpochEnd ==
    /\ pc = "fit"
    /\ epoch < TotalEpochs(args)
    /\ ~batch.none
    /\ fs' = RunCallbacks(callbacks, fs)
    /\ epoch' = epoch + 1
    /\ drawn' = NoBatch
    /\ batch' = PyNone
    /\ UNCHANGED << args, fs0, pc, error, model, embed_model, par_model,
                    embedding_layer_name, trainable, resumed,
                    batch_transform_kwargs, loss, metric, compiled, callbacks,
                    pre_epochs >>

\* Lines 218-245: evaluation and the dumps; the run ends.
Finish ==
    /\ pc = "fit"
    /\ epoch >= TotalEpochs(args)
    /\ pc' = "done"
    /\ UNCHANGED << args, fs, fs0, error, model, embed_model, par_model,
                    embedding_layer_name, trainable, resumed,
                    batch_transform_kwargs, loss, metric, compiled, callbacks,
                    epoch, pre_epochs, drawn, batch >>

\* The process ends: its memory is gone, the snapshot file stays.
Exit ==
    /\ pc \in {"done", "aborted"}
    /\ Fresh(Defaults)
    /\ pc' = "exited"
    /\ fs0' = NoFile
    /\ UNCHANGED fs

\* Lines 54-110: the script is started again with another command line.
Restart ==
    /\ pc = "exited"
    /\ \E a \in ArgSets : Fresh(a)
    /\ pc' = "start"
    /\ fs0' = fs
    /\ UNCHANGED fs

Next ==
    \/ Construct
    \/ Configure
    \/ Finetune
    \/ PretrainBatch
    \/ PretrainEpochEnd
    \/ PretrainFinish
    \/ Schedule
    \/ CompileMain
    \/ MainBatch
    \/ MainEpochEnd
    \/ Finish
    \/ Exit
    \/ Restart

Spec == Init /\ [][Next]_vars

(* ------------------ cls_model and transform_inputs alone -------------- *)
Architectures == {"simple", "resnet-32"}

\* The models cls_model is handed: a network as built, with the final
\* layer each --loss gives it.
EmbedModels ==
    { BuildSingle([Defaults EXCEPT !.loss = l, !.architecture = ar]).model :
        l \in Losses, ar \in Architectures }

\* cls_base values: None, indices in and out of range, signed, padded and
\* underscored integers, names of layers and of no layer, the empty string.
AllClsBases ==
    { PyNone,
      Some(<<"0">>), Some(<<"1">>), Some(<<"2">>), Some(<<"-", "1">>),
      Some(<<"-", "2">>), Some(<<"+", "1">>), Some(<<" ", "2", " ">>),
      Some(<<"0", "_", "1">>), Some(<<"9">>), Some(<<"-", "9">>),
      Some(<<"1", "_">>), Some(<<"-">>), Some(<<>>),
      Some(<<"c", "o", "n", "v", "1">>),
      Some(<<"e", "m", "b", "e", "d", "d", "i", "n", "g">>),
      Some(<<"l", "2", "n", "o", "r", "m">>),
      Some(<<"f", "c">>) }

InitCls ==
    /\ args \in { [Defaults EXCEPT !.cls_weight = 2, !.cls_base = c] :
                    c \in AllClsBases }
    /\ embed_model \in { Some(m) : m \in EmbedModels }
    /\ pc = "cls_model"
    /\ fs = NoFile
    /\ fs0 = NoFile
    /\ error = ""
    /\ model = NoModel
    /\ par_model = [multi_gpu |-> FALSE, cpu_merge |-> FALSE]
    /\ embedding_layer_name = "embedding"
    /\ trainable = <<>>
    /\ resumed = FALSE
    /\ batch_transform_kwargs = [embedding |-> <<>>, num_classes |-> PyNone]
    /\ loss = ""
    /\ metric = ""
    /\ compiled = NoCompile
    /\ callbacks = <<>>
    /\ epoch = 0
    /\ pre_epochs = 0
    /\ drawn = NoBatch
    /\ batch = PyNone

\* Lines 16-45: one call of cls_model; it returns a model or raises.
ClsCall ==
    /\ pc = "cls_model"
    /\ IF ClsBaseError(embed_model.v, args.cls_base) = ""
       THEN /\ model' = cls_model(embed_model.v, NumClasses, args.cls_base)
            /\ pc' = "returned"
            /\ UNCHANGED error
       ELSE /\ error' = ClsBaseError(embed_model.v, args.cls_base)
            /\ pc' = "raised"
            /\ UNCHANGED model
    /\ UNCHANGED << args, fs, fs0, embed_model, par_model,
                    embedding_layer_name, trainable, resumed,
                    batch_transform_kwargs, loss, metric, compiled, callbacks,
                    epoch, pre_epochs, drawn, batch >>

NextCls == ClsCall

SpecCls == InitCls /\ [][NextCls]_vars

InitTransform ==
    /\ args \in { [Defaults EXCEPT !.cls_weight = w] : w \in {0, 2} }
    /\ batch_transform_kwargs = BatchTransformKwargs(args)
    /\ pc = "transform_inputs"
    /\ fs = NoFile
    /\ fs0 = NoFile
    /\ error = ""
    /\ model = NoModel
    /\ embed_model = PyNone
    /\ par_model = [multi_gpu |-> FALSE, cpu_merge |-> FALSE]
    /\ embedding_layer_name = "embedding"
    /\ trainable = <<>>
    /\ resumed = FALSE
    /\ loss = ""
    /\ metric = ""
    /\ compiled = NoCompile
    /\ callbacks = <<>>
    /\ epoch = 0
    /\ pre_epochs = 0
    /\ drawn = NoBatch
    /\ batch = PyNone

\* Lines 48-50: one call of transform_inputs on a batch.
TransformCall ==
    /\ pc = "transform_inputs"
    /\ \E b \in Batches : drawn' = b /\ batch' = Transformed(b)
    /\ pc' = "transformed"
    /\ UNCHANGED << args, fs, fs0, error, model, embed_model, par_model,
                    embedding_layer_name, trainable, resumed,
                    batch_transform_kwargs, loss, metric, compiled, callbacks,
                    epoch, pre_epochs >>

NextTransform == TransformCall

SpecTransform == InitTransform /\ [][NextTransform]_vars

(* ------------------------------- claims ------------------------------- *)
Constructed == pc \in {"constructed", "configured", "pretrain", "schedule",
                       "compile", "fit", "done"}

\* The run found a snapshot file at start-up.
SnapshotAtStart == args.snapshot /\ fs0.exists

HasCallback(cb) == \E i \in 1..Len(callbacks) : callbacks[i] = cb

AllTrainable == \A l \in LayerSet(model) : trainable[l]

\* C1, on runs that build the model anew: with cls_weight > 0 the compiled
\* model has the two outputs (embedding, 'prob'), the targets have two parts
\* and the loss weights are 1.0 for the embedding output and cls_weight for
\* 'prob'; with cls_weight <= 0 there is one output and one target.
C1_ClassifierFollowsClsWeight ==
    (compiled.form # "none" /\ pc \in {"pretrain", "fit", "done"}) =>
        IF args.cls_weight > 0
        THEN /\ Len(model.outputs) = 2
             /\ model.outputs[2] = "prob"
             /\ compiled.form = "dict"
             /\ DOMAIN compiled.loss_weights = {model.outputs[1], "prob"}
             /\ compiled.loss_weights[model.outputs[1]] = 1
             /\ compiled.loss_weights["prob"] = args.cls_weight
             /\ (~batch.none => batch.v.y.list /\ Len(batch.v.y.value) = 2)
        ELSE /\ Len(model.outputs) = 1
             /\ compiled.form = "single"
             /\ (~batch.none => ~batch.v.y.list)

C1_FreshRuns == ~SnapshotAtStart => C1_ClassifierFollowsClsWeight

\* C2, the part about what is loaded and what is registered: a run that
\* found the snapshot works on the loaded model; with --snapshot given the
\* main training has the checkpoint callback for that path, ModelCheckpoint
\* on one GPU and TemplateModelCheckpoint on several; after every epoch of the
\* main training the file holds the template model, not the replica.
C2_LoadedAndCheckpointed ==
    /\ (Constructed /\ SnapshotAtStart) =>
            resumed /\ embed_model.none /\ model = fs0.model
    /\ (Constructed /\ ~SnapshotAtStart) => ~resumed
    /\ (pc \in {"compile", "fit", "done"} /\ args.snapshot) =>
            HasCallback([kind |-> IF args.gpus <= 1 THEN "ModelCheckpoint"
                                  ELSE "TemplateModelCheckpoint",
                         filepath |-> "snapshot"])
    /\ (pc \in {"fit", "done"} /\ args.snapshot /\ epoch > args.initial_epoch) =>
            fs.exists /\ fs.model = model /\ ~fs.multi_gpu

\* C2, the part about resuming: a run that found the snapshot goes on to
\* train, it does not end in an exception.
C2_ResumedRunTrains == pc = "aborted" => ~SnapshotAtStart

\* C2: when --snapshot is given and the file exists at start-up the model is
\* loaded and used to resume training, in every GPU configuration, and with
\* --snapshot given the checkpoint callback is registered for the main
\* training, saving the template model.
C2_ResumeAndCheckpoint == C2_LoadedAndCheckpointed /\ C2_ResumedRunTrains

\* C3: a freshly built model's embedding output is the 'l2norm' layer for
\* inv_corr, the 'softmax' layer for softmax_corr and the network's own
\* 'embedding' layer for unnorm_corr and mse; the loss is inv_correlation
\* for the three *_corr losses and squared_distance for mse; the same on one
\* device and in the CPU-placed multi-GPU branch.
C3_FreshOutputFollowsLoss ==
    (Constructed /\ ~SnapshotAtStart) =>
        /\ args.loss = "inv_corr" =>
              /\ model.outputs[1] = "l2norm"
              /\ model.inbound["l2norm"] = "embedding"
              /\ "softmax" \notin LayerSet(model)
        /\ args.loss = "softmax_corr" =>
              /\ model.outputs[1] = "softmax"
              /\ model.inbound["softmax"] = "embedding"
              /\ "l2norm" \notin LayerSet(model)
        /\ args.loss \in {"unnorm_corr", "mse"} =>
              /\ model.outputs[1] = "embedding"
              /\ "l2norm" \notin LayerSet(model)
              /\ "softmax" \notin LayerSet(model)
        /\ pc # "constructed" =>
              loss = IF args.loss = "mse" THEN "squared_distance"
                     ELSE "inv_correlation"

C3_Witness ==
    /\ pc = "configured"
    /\ ~SnapshotAtStart
    /\ args.gpus > 1 /\ ~args.gpu_merge
    /\ args.loss = "softmax_corr"
    /\ model.outputs[1] = "softmax"
    /\ loss = "inv_correlation"

\* C4, the phases as far as a run reaches them: during the pre-training
\* just 'embedding', 'prob' and the last layer of the embedding network are
\* trainable; the main training starts after exactly finetune_init epochs of
\* it with every layer trainable; without --finetune or with
\* finetune_init <= 0 there is no pre-training and no frozen layer.
C4_PhasesWhenReached ==
    IF args.finetune /\ args.finetune_init > 0
    THEN /\ pc = "pretrain" =>
              \A l \in LayerSet(model) :
                  trainable[l] <=>
                      l \in {"embedding", "prob",
                             embed_model.v.layers[Len(embed_model.v.layers)]}
         /\ pc \in {"schedule", "compile", "fit", "done"} =>
              pre_epochs = args.finetune_init /\ AllTrainable
    ELSE /\ pre_epochs = 0
         /\ pc # "pretrain"
         /\ Constructed => AllTrainable

\* C4, the part about the phase running: with --finetune and
\* finetune_init > 0 a run whose model stands reaches the pre-training, the
\* fine-tuning block raises nothing.
C4_PretrainingRuns ==
    (args.finetune /\ args.finetune_init > 0) => error # "NameError"

\* C4: with --finetune and finetune_init > 0 a pre-training phase of exactly
\* finetune_init epochs runs before the main training with just the new
\* layers trainable, and every layer is trainable again when the main
\* training starts; otherwise no pre-training runs and no layer is frozen.
C4_PretrainThenFullTraining == C4_PhasesWhenReached /\ C4_PretrainingRuns

\* C5: cls_model returns a model with exactly the two outputs (the output of
\* embed_model, 'prob') in this order; the classifier hangs on the final
\* output when cls_base is None, on the layer at index int(cls_base) when
\* cls_base parses as an integer, on the layer named cls_base otherwise.
C5_ClsModelOutputsAndBase ==
    pc = "returned" =>
        LET e == embed_model.v
            cb == args.cls_base
            n == IF cb.none THEN 0 ELSE PyInt(cb.v).val
            expected ==
                IF cb.none THEN e.outputs[1]
                ELSE IF PyInt(cb.v).ok
                THEN e.layers[IF n >= 0 THEN n + 1 ELSE Len(e.layers) + n + 1]
                ELSE CHOOSE l \in LayerSet(e) : l = PyStr(cb.v)
        IN  /\ Len(model.outputs) = 2
            /\ model.outputs[1] = e.outputs[1]
            /\ model.outputs[2] = "prob"
            /\ model.inbound["activation_1"] = expected
            /\ model.inbound["batch_normalization_1"] = "activation_1"
            /\ model.inbound["prob"] = "batch_normalization_1"
            /\ \A l \in LayerSet(e) :
                  l \in LayerSet(model) /\ model.inbound[l] = e.inbound[l]

C5_Witness ==
    /\ pc = "returned"
    /\ ~args.cls_base.none
    /\ PyInt(args.cls_base.v).ok
    /\ PyInt(args.cls_base.v).val < 0
    /\ model.inbound["activation_1"] # embed_model.v.outputs[1]
    /\ model.outputs = <<"l2norm", "prob">>

\* C6: transform_inputs returns X unchanged and, for every sample i, the
\* target embedding[y[i]]; alone when num_classes is None, otherwise first in
\* a list of two whose second part is one_hot(y, num_classes).
C6_TargetsAreClassEmbeddings ==
    ~batch.none =>
        LET out == batch.v
            y == drawn.y
            nc == batch_transform_kwargs.num_classes
            emb == IF out.y.list THEN out.y.value[1] ELSE out.y.value
        IN  /\ out.X = drawn.X
            /\ out.y.list = ~nc.none
            /\ out.y.list => Len(out.y.value) = 2
            /\ Len(emb) = Len(y)
            /\ \A i \in 1..Len(y) : emb[i] = Embedding[y[i] + 1]
            /\ out.y.list =>
                  /\ Len(out.y.value[2]) = Len(y)
                  /\ \A i \in 1..Len(y) :
                        /\ Len(out.y.value[2][i]) = nc.v
                        /\ \A j \in 1..nc.v :
                              out.y.value[2][i][j] = IF j = y[i] + 1 THEN 1 ELSE 0

C6_Witness ==
    /\ pc = "transformed"
    /\ batch.v.y.list
    /\ Len(drawn.y) >= 2
    /\ drawn.y[1] # drawn.y[2]
    /\ batch.v.y.value[1][1] # batch.v.y.value[1][2]

====
